---- MODULE Spec2Model ----
(***************************************************************************)
(* A model of trunk/GameServer/models/game.py: the player state machine,   *)
(* the zombie chase/wander step, the Game.Advance tick, the encoded forms  *)
(* of the entities, GameTile and GameTileWindow.                           *)
(*                                                                         *)
(* Coordinates are integers in units of one metre of arc, close to the     *)
(* origin (lat 0, lon 0), where the haversine distance of                  *)
(* Entity.DistanceFromLatLon reduces to the planar distance.  Wall-clock   *)
(* time is in whole seconds.  The players and zombies that the source      *)
(* reaches through Game._GameTileWindow() (a stub in the source, lines     *)
(* 540-541) are kept as the game's rosters `players` and `zombies`; the    *)
(* loop of line 615 is read as a loop over the zombies.  GameTile and      *)
(* GameTileWindow are modelled by themselves, as their methods are         *)
(* written; Object, memcache and pickle, which the file does not import,   *)
(* are read as object and as the modules of those names.                   *)
(***************************************************************************)
EXTENDS Integers, Sequences, FiniteSets, TLC

VARIABLES now, players, zombies, destination, op,
          tiles, memcache, datastore, ret, running

\* the game: the wall clock, the rosters, the destination and the last call
gameVars == <<now, players, zombies, destination, op>>

\* the tile index: the tiles in the process, the distributed cache, the
\* durable store, the outcome of the last call on them, and the ticks that
\* are under way
tileVars == <<tiles, memcache, datastore, ret, running>>

vars == <<gameVars, tileVars>>

-----------------------------------------------------------------------------
(* Program constants                                                       *)

TRIGGER_DISTANCE_METERS == 15
ZOMBIE_VISION_DISTANCE_METERS == 200
MAX_TIME_INTERVAL_SECS == 60 * 10
INFECTED_PLAYER_TRANSITION_SECONDS == 120

\* datetime.timedelta keeps days apart from seconds; 24 * 3600 seconds a day
SecondsPerDay == 24 * 3600

\* 90 and 180 degrees in metres of arc (RADIUS_OF_EARTH_METERS * pi / 180
\* is 111319 metres to the degree)
MetersPerDegree == 111319
MaxLatitude == 90 * MetersPerDegree
MaxLongitude == 180 * MetersPerDegree

\* Python's None, for a coordinate or an attribute that is not set
None == 0 - 999999999

\* no player: Zombie.chasing = None
NoPlayer == "none"

-----------------------------------------------------------------------------
(* Bounds of the model                                                     *)

\* wall-clock instants: 0, and the transition time and the MaxLate seconds
\* after it
MaxLate == 1
\* longest Zombie.Advance, in seconds, that is called by itself
MaxSeconds == 2
\* longest gap, in seconds, of a tick of the game of one player
MaxGap == 1
\* zombies stay in the window of latitudes 0..MaxZombieLat
MaxZombieLat == 12
\* largest gap, in days, of a tick
MaxDays == 3

Emails == {"a", "b"}
Guids == {1}

\* the meridian the game is played on; the other meridian is longitude 0
Lon1 == 1000
DestinationLocation == <<10, Lon1>>

Times == {0} \cup (INFECTED_PLAYER_TRANSITION_SECONDS ..
                     INFECTED_PLAYER_TRANSITION_SECONDS + MaxLate)

\* the outcomes of random.random() - 0.5 that the model follows: a heading
\* point south of, at, or north of the zombie on its own meridian
WanderDirs == {0 - 1, 0, 1}
HeadingOffset == 1000

-----------------------------------------------------------------------------
(* Helpers                                                                 *)

Abs(x) == IF x < 0 THEN 0 - x ELSE x
Min(x, y) == IF x < y THEN x ELSE y

\* Python truth value of a float or None: None and 0 are false
Truthy(v) == v # None /\ v # 0

\* floor of the square root
ISqrt(n, hi) == CHOOSE r \in 0..hi : r * r <= n /\ (r + 1) * (r + 1) > n

-----------------------------------------------------------------------------
(* Entity                                                                  *)

\* Entity.SetLocation: the conditions under which it raises
InvalidLocation(lat, lon) ==
    \/ lat = None \/ lon = None
    \/ lat > MaxLatitude \/ lat < 0 - MaxLatitude
    \/ lon > MaxLongitude \/ lon < 0 - MaxLongitude

\* SetLocation without the check of the longitude's range
SetLocation_NoLonCheck(e, lat, lon) ==
    IF lat = None \/ lon = None \/ lat > MaxLatitude \/ lat < 0 - MaxLatitude
    THEN e
    ELSE [e EXCEPT !.lat = lat, !.lon = lon]

\* Entity.SetLocation on a record with lat and lon; a raise leaves it as it is
SetLocation(e, lat, lon) ==
    IF InvalidLocation(lat, lon) THEN e
    ELSE [e EXCEPT !.lat = lat, !.lon = lon]

\* Entity.DistanceFromLatLon, in whole metres (rounded down)
DistanceFromLatLon(e, lat, lon) ==
    LET dlon == Abs(lon - e.lon)
        dlat == Abs(lat - e.lat)
    IN  IF dlon = 0 THEN dlat
        ELSE IF dlat = 0 THEN dlon
        ELSE ISqrt(dlat * dlat + dlon * dlon, dlat + dlon)

DistanceFrom(e, other) == DistanceFromLatLon(e, other.lat, other.lon)

-----------------------------------------------------------------------------
(* Player                                                                  *)

\* Player.__init__ without an encoded form
NewPlayer ==
    [lat |-> None, lon |-> None, infected |-> FALSE, infected_time |-> None,
     is_zombie |-> FALSE, reached_destination |-> FALSE]

\* Invalidate with the transition at 120 seconds sharp
PlayerInvalidate_AtLeast(p, t) ==
    IF p.infected /\ t - p.infected_time >= INFECTED_PLAYER_TRANSITION_SECONDS
    THEN [p EXCEPT !.is_zombie = TRUE]
    ELSE p

\* Invalidate that assigns the outcome of the comparison to is_zombie
PlayerInvalidate_Assign(p, t) ==
    [p EXCEPT !.is_zombie =
        p.infected /\
        t - p.infected_time > INFECTED_PLAYER_TRANSITION_SECONDS]

PlayerInvalidate(p, t) ==
    IF p.infected /\ t - p.infected_time > INFECTED_PLAYER_TRANSITION_SECONDS
    THEN [p EXCEPT !.is_zombie = TRUE]
    ELSE p

\* Infect that sets the flag and records no time
PlayerInfect_NoTime(p, t) == [p EXCEPT !.infected = TRUE]

PlayerInfect(p, t) == [p EXCEPT !.infected = TRUE, !.infected_time = t]

PlayerReachedDestination(p) == [p EXCEPT !.reached_destination = TRUE]

\* Player.Trigger: self triggers on player
PlayerTrigger(self, player, t) ==
    IF self.is_zombie THEN PlayerInfect(player, t) ELSE player

\* Zombie.Trigger
ZombieTrigger(player, t) == PlayerInfect(player, t)

\* Destination.Trigger
DestinationTrigger(player) == PlayerReachedDestination(player)

-----------------------------------------------------------------------------
(* Zombie                                                                  *)

\* the scan of Zombie.ComputeChasing over the player list from index i on
RECURSIVE MinScan(_, _, _, _, _, _)
MinScan(z, plist, P, i, min_distance, min_player) ==
    IF i > Len(plist)
    THEN [min_distance |-> min_distance, min_player |-> min_player]
    ELSE LET distance == DistanceFrom(z, P[plist[i]])
         IN  IF min_distance = None \/ distance < min_distance
             THEN MinScan(z, plist, P, i + 1, distance, plist[i])
             ELSE MinScan(z, plist, P, i + 1, min_distance, min_player)

\* Zombie.ComputeChasing: plist is the list of players (emails, in the order
\* of enumeration), P their states
ComputeChasing(z, plist, P) ==
    LET m == MinScan(z, plist, P, 1, None, NoPlayer)
    IN  IF Truthy(m.min_distance) /\
           m.min_distance < ZOMBIE_VISION_DISTANCE_METERS
        THEN [z EXCEPT !.chasing = m.min_player]
        ELSE [z EXCEPT !.chasing = NoPlayer]

\* Zombie.MoveTowardsLatLon, lines 235-240, with dstToLatLon computed: the
\* zombie after the move, and whether SetLocation raised
MoveBy(z, lat, lon, distance, dstToLatLon) ==
    IF dstToLatLon > 0
    THEN [zombie |-> SetLocation(z,
                        z.lat + ((lat - z.lat) * distance) \div dstToLatLon,
                        z.lon + ((lon - z.lon) * distance) \div dstToLatLon),
          raised |-> InvalidLocation(
                        z.lat + ((lat - z.lat) * distance) \div dstToLatLon,
                        z.lon + ((lon - z.lon) * distance) \div dstToLatLon)]
    ELSE [zombie |-> SetLocation(z, z.lat, z.lon),
          raised |-> InvalidLocation(z.lat, z.lon)]

\* Zombie.MoveTowardsLatLon
MoveTowardsLatLon(z, lat, lon, distance) ==
    MoveBy(z, lat, lon, distance, DistanceFromLatLon(z, lat, lon))

\* Zombie.Advance, lines 222-230: the move of one pass of the loop, for the
\* zombie c that has computed whom it chases; dir is the outcome of the
\* random heading
AdvanceMove(c, seconds, P, dir) ==
    IF c.chasing # NoPlayer
    THEN MoveTowardsLatLon(c, P[c.chasing].lat, P[c.chasing].lon,
                           Min(DistanceFrom(c, P[c.chasing]),
                               seconds * c.speed))
    ELSE MoveTowardsLatLon(c, c.lat + dir * HeadingOffset, c.lon,
                           seconds * c.speed)

\* Zombie.Advance, lines 219-231.  The state of the loop: the zombie, the
\* seconds left, the number k of the pass (dirs[k] is the outcome of its
\* random heading), the distance covered so far, and whether SetLocation
\* has raised.

\* the end of a pass: `step` is the move of zombie c
AdvanceMoved(c, step, st) ==
    IF step.raised
    THEN [st EXCEPT !.zombie = step.zombie, !.raised = TRUE]
    ELSE [zombie |-> step.zombie,
          seconds |-> st.seconds - 1,
          k |-> st.k + 1,
          moved |-> st.moved + DistanceFromLatLon(c, step.zombie.lat,
                                                  step.zombie.lon),
          raised |-> FALSE]

AdvanceChasing(c, st, P, dirs) ==
    AdvanceMoved(c, AdvanceMove(c, st.seconds, P, dirs[st.k]), st)

\* one pass of the loop, if the loop has not ended
AdvancePass(st, plist, P, dirs) ==
    IF st.raised \/ ~(st.seconds > 0) THEN st
    ELSE AdvanceChasing(ComputeChasing(st.zombie, plist, P), st, P, dirs)

\* n passes of the loop, one after the other: the first half of them leads
\* to the state `half`, the others go on from it
RECURSIVE AdvancePasses(_, _, _, _, _)
AdvancePasses(st, n, plist, P, dirs) ==
    IF n = 0 THEN st
    ELSE IF n = 1 THEN AdvancePass(st, plist, P, dirs)
    ELSE CHOOSE last \in
            {AdvancePasses(half, n - n \div 2, plist, P, dirs) :
                half \in {AdvancePasses(st, n \div 2, plist, P, dirs)}} : TRUE

\* Zombie.Advance(seconds, player_iter): the loop makes `seconds` passes
ZombieAdvance(z, seconds, plist, P, dirs) ==
    AdvancePasses([zombie |-> z, seconds |-> seconds, k |-> 1, moved |-> 0,
                   raised |-> FALSE],
                  IF seconds > 0 THEN seconds ELSE 0, plist, P, dirs)

-----------------------------------------------------------------------------
(* Game                                                                    *)

\* the orders in which Game.Players() can enumerate the players S
Orders(S) ==
    {o \in [1..Cardinality(S) -> S] :
        \A i, j \in 1..Cardinality(S) : o[i] = o[j] => i = j}

\* the guids of a roster of zombies, as a list in increasing order
RECURSIVE GuidList(_)
GuidList(S) ==
    IF S = {} THEN << >>
    ELSE LET g == CHOOSE x \in S : \A y \in S : x <= y
         IN  <<g>> \o GuidList(S \ {g})

\* the condition of Game.PlayersInPlay on one player
InPlay(p) ==
    /\ Truthy(p.lat)
    /\ Truthy(p.lon)
    /\ ~p.reached_destination
    /\ ~p.infected

\* Game.PlayersInPlay: the emails of the players it yields, in order
PlayersInPlay(P, order) == SelectSeq(order, LAMBDA e : InPlay(P[e]))

\* Game.ZombiePlayers
ZombiePlayers(P, order) == SelectSeq(order, LAMBDA e : P[e].is_zombie)

\* Game.ZombiesAndInfectedPlayers: the zombies, then the zombie players
ZombiesAndInfectedPlayers(P, Z, order) ==
    LET zs == GuidList(DOMAIN Z)
        ps == ZombiePlayers(P, order)
    IN  [i \in 1..Len(zs) |-> [kind |-> "zombie", guid |-> zs[i], email |-> NoPlayer]]
        \o [i \in 1..Len(ps) |-> [kind |-> "player", guid |-> 0, email |-> ps[i]]]

\* Game.Destination(): decoding sets the location only when both encoded
\* coordinates are true values (Entity.FromString)
Destination(d) ==
    IF Truthy(d.lat) /\ Truthy(d.lon) THEN d ELSE [lat |-> None, lon |-> None]

\* Game.Advance, lines 611-612: Invalidate on every entity (only Player
\* overrides it)
InvalidateAll(P, t) == [e \in DOMAIN P |-> PlayerInvalidate(P[e], t)]

\* Game.Advance, lines 615-617: the zombies from the i-th on.  A raise in
\* Zombie.Advance ends the loop.
RECURSIVE ZombiesLoop(_, _, _, _, _, _, _)
RECURSIVE ZombiesNext(_, _, _, _, _, _, _, _)

\* after Zombie.Advance of the i-th zombie returned r
ZombiesNext(r, Z, zlist, i, seconds_to_move, plist, P, dirs) ==
    IF r.raised
    THEN [zombies |-> [Z EXCEPT ![zlist[i]] = r.zombie], raised |-> TRUE]
    ELSE ZombiesLoop([Z EXCEPT ![zlist[i]] = r.zombie], zlist, i + 1,
                     seconds_to_move, plist, P, dirs)

ZombiesLoop(Z, zlist, i, seconds_to_move, plist, P, dirs) ==
    IF i > Len(zlist) THEN [zombies |-> Z, raised |-> FALSE]
    ELSE ZombiesNext(ZombieAdvance(Z[zlist[i]], seconds_to_move, plist, P,
                                   dirs[zlist[i]]),
                     Z, zlist, i, seconds_to_move, plist, P, dirs)

\* the entity a member h of ZombiesAndInfectedPlayers stands for
HazardEntity(h, P, Z) == IF h.kind = "zombie" THEN Z[h.guid] ELSE P[h.email]

\* zombie.Trigger(player), line 630, by the kind of `zombie`
TriggerOf(kind, zombie, player, t) ==
    IF kind = "zombie" THEN ZombieTrigger(player, t)
    ELSE PlayerTrigger(zombie, player, t)

\* Game.Advance, lines 628-630, for one player p: the zombies and zombie
\* players hz from the j-th on.  The distance to an entity without a
\* location raises.
RECURSIVE HazardLoop(_, _, _, _, _, _)
RECURSIVE HazardNext(_, _, _, _, _, _, _)

HazardNext(zombie, p, hz, P, Z, j, t) ==
    IF zombie.lat = None \/ zombie.lon = None
    THEN [player |-> p, raised |-> TRUE]
    ELSE IF DistanceFrom(p, zombie) < TRIGGER_DISTANCE_METERS
    THEN HazardLoop(TriggerOf(hz[j].kind, zombie, p, t), hz, P, Z, j + 1, t)
    ELSE HazardLoop(p, hz, P, Z, j + 1, t)

HazardLoop(p, hz, P, Z, j, t) ==
    IF j > Len(hz) THEN [player |-> p, raised |-> FALSE]
    ELSE HazardNext(HazardEntity(hz[j], P, Z), p, hz, P, Z, j, t)

\* Game.Advance, lines 624-626: the destination's trigger on player p
DestinationInRange(p, dst) ==
    IF DistanceFrom(p, dst) < TRIGGER_DISTANCE_METERS
    THEN DestinationTrigger(p) ELSE p

\* Game.Advance, lines 624-630, for the player e of the players P1, on whom
\* the destination has been triggered
TriggersOn(e, P1, Z, order, t) ==
    HazardLoop(P1[e], ZombiesAndInfectedPlayers(P1, Z, order), P1, Z, 1, t)

\* Game.Advance, lines 620-630: the players from the i-th of the
\* enumeration on; PlayersInPlay is a generator, its condition is looked at
\* when the player's turn comes
RECURSIVE TriggerLoop(_, _, _, _, _, _)
RECURSIVE TriggerNext(_, _, _, _, _, _, _)

\* after the triggers on the i-th player returned h
TriggerNext(h, P, Z, d, order, i, t) ==
    IF h.raised
    THEN [players |-> [P EXCEPT ![order[i]] = h.player], raised |-> TRUE]
    ELSE TriggerLoop([P EXCEPT ![order[i]] = h.player], Z, d, order, i + 1, t)

TriggerLoop(P, Z, d, order, i, t) ==
    IF i > Len(order) THEN [players |-> P, raised |-> FALSE]
    ELSE IF ~InPlay(P[order[i]]) THEN TriggerLoop(P, Z, d, order, i + 1, t)
    ELSE IF Destination(d).lat = None THEN [players |-> P, raised |-> TRUE]
    ELSE TriggerNext(
            TriggersOn(order[i],
                       [P EXCEPT ![order[i]] =
                           DestinationInRange(P[order[i]], Destination(d))],
                       Z, order, t),
            P, Z, d, order, i, t)

\* Game.Advance, lines 607-609: timedelta.seconds leaves the days out
SecondsToMove(gap) == Min(gap % SecondsPerDay, MAX_TIME_INTERVAL_SECS)

\* Game.Advance, lines 619-630, after the loop over the zombies returned zl
AdvanceTriggers(zl, P1, d, t, seconds_to_move, order) ==
    IF zl.raised
    THEN [players |-> P1, zombies |-> zl.zombies, raised |-> TRUE,
          seconds_to_move |-> seconds_to_move]
    ELSE [players |-> TriggerLoop(P1, zl.zombies, d, order, 1, t).players,
          zombies |-> zl.zombies,
          raised |-> TriggerLoop(P1, zl.zombies, d, order, 1, t).raised,
          seconds_to_move |-> seconds_to_move]

\* Game.Advance, lines 614-630, on the players P1 that Invalidate has run on
AdvanceInvalidated(P1, Z, d, t, seconds_to_move, order, dirs) ==
    AdvanceTriggers(ZombiesLoop(Z, GuidList(DOMAIN Z), 1, seconds_to_move,
                                PlayersInPlay(P1, order), P1, dirs),
                    P1, d, t, seconds_to_move, order)

\* Game.Advance at time t, gap seconds after last_update_time
GameAdvance(P, Z, d, t, gap, order, dirs) ==
    AdvanceInvalidated(InvalidateAll(P, t), Z, d, t, SecondsToMove(gap),
                       order, dirs)

-----------------------------------------------------------------------------
(* The state machine                                                       *)

\* the operation that led to the state: its name, the player it was called
\* for, the gap and the seconds of a tick or of a Zombie.Advance, and the
\* distance the zombie covered
Op(name, email, gap, seconds, moved) ==
    [name |-> name, player |-> email, gap |-> gap, seconds |-> seconds,
     moved |-> moved]

NewZombie(lat, speed) ==
    [lat |-> lat, lon |-> Lon1, speed |-> speed, chasing |-> NoPlayer]

InWindow(Z) == \A g \in DOMAIN Z : Z[g].lat \in 0..MaxZombieLat

Headings == [1..MaxSeconds -> WanderDirs]

\* the wall clock moves on
Tick(t) ==
    /\ t > now
    /\ now' = t
    /\ op' = Op("Tick", NoPlayer, 0, 0, 0)
    /\ UNCHANGED <<players, zombies, destination, tileVars>>

\* Entity.SetLocation on a player
SetPlayerLocation(e, lat, lon) ==
    /\ players' = [players EXCEPT ![e] = SetLocation(@, lat, lon)]
    /\ op' = Op("SetLocation", e, 0, 0, 0)
    /\ UNCHANGED <<now, zombies, destination, tileVars>>

Infect(e) ==
    /\ players' = [players EXCEPT ![e] = PlayerInfect(@, now)]
    /\ op' = Op("Infect", e, 0, 0, 0)
    /\ UNCHANGED <<now, zombies, destination, tileVars>>

Invalidate(e) ==
    /\ players' = [players EXCEPT ![e] = PlayerInvalidate(@, now)]
    /\ op' = Op("Invalidate", e, 0, 0, 0)
    /\ UNCHANGED <<now, zombies, destination, tileVars>>

ReachedDestination(e) ==
    /\ players' = [players EXCEPT ![e] = PlayerReachedDestination(@)]
    /\ op' = Op("ReachedDestination", e, 0, 0, 0)
    /\ UNCHANGED <<now, zombies, destination, tileVars>>

\* Trigger of an entity on player e: of a zombie, of player q, of the
\* destination
TriggerZombie(g, e) ==
    /\ players' = [players EXCEPT ![e] = ZombieTrigger(@, now)]
    /\ op' = Op("Trigger", e, 0, 0, 0)
    /\ UNCHANGED <<now, zombies, destination, tileVars>>

TriggerPlayer(q, e) ==
    /\ players' = [players EXCEPT ![e] = PlayerTrigger(players[q], @, now)]
    /\ op' = Op("Trigger", e, 0, 0, 0)
    /\ UNCHANGED <<now, zombies, destination, tileVars>>

TriggerDestination(e) ==
    /\ players' = [players EXCEPT ![e] = DestinationTrigger(@)]
    /\ op' = Op("Trigger", e, 0, 0, 0)
    /\ UNCHANGED <<now, zombies, destination, tileVars>>

\* Zombie.ComputeChasing on the players in play
ChasingOf(g, order) ==
    /\ zombies' = [zombies EXCEPT
                     ![g] = ComputeChasing(@, PlayersInPlay(players, order),
                                           players)]
    /\ op' = Op("ComputeChasing", NoPlayer, 0, 0, 0)
    /\ UNCHANGED <<now, players, destination, tileVars>>

\* Zombie.Advance on the players in play
AdvanceZombie(g, seconds, order, dirs) ==
    LET r == ZombieAdvance(zombies[g], seconds,
                           PlayersInPlay(players, order), players, dirs)
    IN  /\ zombies' = [zombies EXCEPT ![g] = r.zombie]
        /\ InWindow(zombies')
        /\ op' = Op("ZombieAdvance", NoPlayer, 0, seconds, r.moved)
        /\ UNCHANGED <<now, players, destination, tileVars>>

\* Game.Advance
Advance(gap, order, dirs) ==
    LET r == GameAdvance(players, zombies, destination, now, gap, order, dirs)
    IN  /\ players' = r.players
        /\ zombies' = r.zombies
        /\ InWindow(zombies')
        /\ op' = Op("Advance", NoPlayer, gap, r.seconds_to_move, 0)
        /\ UNCHANGED <<now, destination, tileVars>>

-----------------------------------------------------------------------------
(* The game of one player and one zombie: the player state machine and the *)
(* tick                                                                    *)

PlayerLocations == {<<0, Lon1>>, <<10, Lon1>>, <<10, 0>>}

\* GameTileWindow.__init__: no tile in the process; nothing is in the cache
\* or in the store, no call was made and no tick is under way
NoIndex ==
    /\ tiles = <<>>
    /\ memcache = <<>>
    /\ datastore = <<>>
    /\ ret = [name |-> "Init"]
    /\ running = <<>>

Init ==
    /\ NoIndex
    /\ now = 0
    /\ players = [e \in {"a"} |-> NewPlayer]
    /\ zombies = [g \in Guids |-> NewZombie(8, 2)]
    /\ destination = [lat |-> DestinationLocation[1],
                      lon |-> DestinationLocation[2]]
    /\ op = Op("Init", NoPlayer, 0, 0, 0)

Next ==
    \/ \E t \in Times : Tick(t)
    \/ \E e \in DOMAIN players, l \in PlayerLocations :
          SetPlayerLocation(e, l[1], l[2])
    \/ \E e \in DOMAIN players : Infect(e)
    \/ \E e \in DOMAIN players : Invalidate(e)
    \/ \E e \in DOMAIN players : ReachedDestination(e)
    \/ \E g \in DOMAIN zombies, e \in DOMAIN players : TriggerZombie(g, e)
    \/ \E q \in DOMAIN players, e \in DOMAIN players : TriggerPlayer(q, e)
    \/ \E e \in DOMAIN players : TriggerDestination(e)
    \/ \E gap \in 0..MaxGap, order \in Orders(DOMAIN players),
          dirs \in [DOMAIN zombies -> [1..MaxGap -> WanderDirs]] :
          Advance(gap, order, dirs)

Spec == Init /\ [][Next]_vars

-----------------------------------------------------------------------------
(* One zombie among two players that stand still: Zombie.ComputeChasing    *)
(* and Zombie.Advance                                                      *)

StandingLats == {10, 12, 208}
ZombieLats == {8, 11}
Speeds == {2, 3}

InitZombie ==
    /\ NoIndex
    /\ now = 0
    /\ \E place \in [Emails -> StandingLats \cup {None}] :
          players = [e \in Emails |->
                        IF place[e] = None THEN NewPlayer
                        ELSE SetLocation(NewPlayer, place[e], Lon1)]
    /\ \E lat \in ZombieLats, speed \in Speeds :
          zombies = [g \in Guids |-> NewZombie(lat, speed)]
    /\ destination = [lat |-> DestinationLocation[1],
                      lon |-> DestinationLocation[2]]
    /\ op = Op("Init", NoPlayer, 0, 0, 0)

NextZombie ==
    \/ \E g \in DOMAIN zombies, order \in Orders(DOMAIN players) :
          ChasingOf(g, order)
    \/ \E g \in DOMAIN zombies, seconds \in 0..MaxSeconds,
          order \in Orders(DOMAIN players), dirs \in Headings :
          AdvanceZombie(g, seconds, order, dirs)

SpecZombie == InitZombie /\ [][NextZombie]_vars

-----------------------------------------------------------------------------
(* Ticks after gaps of up to MaxDays days.  The zombie's random heading    *)
(* point is its own position in every second, which keeps it in the window *)

GapSeconds ==
    (0..MaxSeconds)
    \cup ((MAX_TIME_INTERVAL_SECS - MaxSeconds) ..
          (MAX_TIME_INTERVAL_SECS + MaxSeconds))
    \cup {SecondsPerDay - 1}

Gaps == {d * SecondsPerDay + s : d \in 0..MaxDays, s \in GapSeconds}

AdvanceAfter(gap) ==
    \E order \in Orders(DOMAIN players) :
        Advance(gap, order,
                [g \in DOMAIN zombies |->
                    [k \in 1..MAX_TIME_INTERVAL_SECS |-> 0]])

NextGap ==
    \/ \E t \in Times : Tick(t)
    \/ \E gap \in Gaps : AdvanceAfter(gap)

SpecGap == Init /\ [][NextGap]_vars

-----------------------------------------------------------------------------
(* Encoded forms.  json.dumps writes the dictionary of DictForJson as a    *)
(* JSON object and json.loads reads the same keys and values back (None as *)
(* null, numbers by their repr), so the encoded form is kept as the        *)
(* function from the keys that are present to their values.                *)

\* GAME_TILE_LAT_LON_SPAN = 0.01: a hundred tiles to the degree
TilesPerDegree == 100

\* Player.DictForJson and ToString of a player with an email
PlayerToString(p, email) ==
    IF p.infected
    THEN [lat |-> p.lat, lon |-> p.lon, email |-> email,
          infected |-> p.infected, infected_time |-> p.infected_time,
          is_zombie |-> p.is_zombie,
          reached_destination |-> p.reached_destination]
    ELSE [lat |-> p.lat, lon |-> p.lon, email |-> email,
          infected |-> p.infected, is_zombie |-> p.is_zombie,
          reached_destination |-> p.reached_destination]

\* Entity.FromString on a fresh entity e: the location is set when both
\* obj["lat"] and obj["lon"] are true
EntityFromString(e, obj) ==
    IF Truthy(obj.lat) /\ Truthy(obj.lon)
    THEN SetLocation(e, obj.lat, obj.lon)
    ELSE e

\* Player(game, encoded): Player.__init__ and Player.FromString; the email
\* of the decoded player is kept beside its other attributes
PlayerFromString(obj) ==
    [email |-> obj.email,
     player |->
        [EntityFromString(NewPlayer, obj) EXCEPT
            !.infected = obj.infected,
            !.infected_time =
                IF obj.infected THEN obj.infected_time ELSE None,
            !.is_zombie = obj.is_zombie,
            !.reached_destination = obj.reached_destination]]

\* GameTileWindow._TileForEntity, lines 470 to 478: the column, the row and
\* the id of the tile of a location
\* int(degrees / GAME_TILE_LAT_LON_SPAN) of a length of x metres of arc
TileIndex(x) ==
    (x \div MetersPerDegree) * TilesPerDegree
    + ((x % MetersPerDegree) * TilesPerDegree) \div MetersPerDegree
TileColumn(lon) == TileIndex(lon + MaxLongitude)
TileRow(lat) == TileIndex(lat + MaxLatitude)
TileId(lat, lon) == TileColumn(lon) * (180 * TilesPerDegree) + TileRow(lat)

\* GameTileWindow._TileForEntity returns None whatever the id is
TileForEntity(e) == None

-----------------------------------------------------------------------------
(* One player: Entity.SetLocation with any coordinates, the encoded form   *)
(* of the player and the tile id of its location                           *)

\* one tile and MaxOff metres from the edges of the grid
MaxOff == 7
TileMeters == MetersPerDegree \div TilesPerDegree + 1
Latitudes ==
    {None, 0 - MaxLatitude - 1, 0 - MaxLatitude, 0, MaxOff,
     MaxLatitude, MaxLatitude + 1}
Longitudes ==
    {None, 0 - MaxLongitude - 1, 0 - MaxLongitude,
     TileMeters - MaxLongitude, 0, MaxLongitude, MaxLongitude + 1}

\* Entity.SetLocation called on a player with any two coordinates
SetLocationCall(e, lat, lon) ==
    /\ players' = [players EXCEPT ![e] = SetLocation(@, lat, lon)]
    /\ ret' = [name |-> "SetLocation", lat |-> lat, lon |-> lon,
               raised |-> InvalidLocation(lat, lon)]
    /\ UNCHANGED <<now, zombies, destination, op, tiles, memcache,
                   datastore, running>>

\* Player.ToString and then Player(game, encoded)
RoundTrip(e) ==
    /\ ret' = [name |-> "FromString",
               encoded |-> PlayerToString(players[e], e),
               decoded |-> PlayerFromString(PlayerToString(players[e], e))]
    /\ UNCHANGED <<gameVars, tiles, memcache, datastore, running>>

\* GameTileWindow._TileForEntity on a player that has a location
TileForPlayer(e) ==
    /\ players[e].lat # None
    /\ ret' = [name |-> "TileForEntity",
               lat |-> players[e].lat, lon |-> players[e].lon,
               column |-> TileColumn(players[e].lon),
               row |-> TileRow(players[e].lat),
               id |-> TileId(players[e].lat, players[e].lon),
               value |-> TileForEntity(players[e])]
    /\ UNCHANGED <<gameVars, tiles, memcache, datastore, running>>

NextEntity ==
    \/ \E t \in Times : Tick(t)
    \/ \E e \in DOMAIN players, lat \in Latitudes, lon \in Longitudes :
          SetLocationCall(e, lat, lon)
    \/ \E e \in DOMAIN players : Infect(e)
    \/ \E e \in DOMAIN players : Invalidate(e)
    \/ \E e \in DOMAIN players : ReachedDestination(e)
    \/ \E e \in DOMAIN players : RoundTrip(e)
    \/ \E e \in DOMAIN players : TileForPlayer(e)

SpecEntity == Init /\ [][NextEntity]_vars

-----------------------------------------------------------------------------
(* GameTile.  players, player_emails and zombies are the stored lists;     *)
(* decoded_players and decoded_zombies are <<>> for None and <<list>> for  *)
(* a list of decoded objects, which Players() and Zombies() hand out and   *)
(* the callers change in place.  A call that raises keeps what it did      *)
(* before the raise.                                                       *)

NoError == "none"

\* Zombie.DictForJson and ToString; chasing is the zombie's chasing_email
ZombieToString(z, guid) ==
    IF z.chasing # NoPlayer
    THEN [lat |-> z.lat, lon |-> z.lon, speed |-> z.speed, guid |-> guid,
          chasing |-> z.chasing]
    ELSE [lat |-> z.lat, lon |-> z.lon, speed |-> z.speed, guid |-> guid]

\* Zombie(game, encoded): Zombie.__init__ and Zombie.FromString
ZombieFromString(obj) ==
    [guid |-> obj.guid,
     zombie |->
        EntityFromString(
            [lat |-> None, lon |-> None, speed |-> obj.speed,
             chasing |-> IF "chasing" \in DOMAIN obj THEN obj.chasing
                         ELSE NoPlayer],
            obj)]

\* GameTile.__init__ on the empty lists of a new db.Model
EmptyTile ==
    [players |-> <<>>, player_emails |-> <<>>, zombies |-> <<>>,
     decoded_players |-> <<>>, decoded_zombies |-> <<>>]

\* list.pop(i), counting from 1
Pop(list, i) == SubSeq(list, 1, i - 1) \o SubSeq(list, i + 1, Len(list))

\* GameTile.Players: the decoded players it returns, and the tile after it
Players(tile) ==
    IF tile.decoded_players # <<>> THEN tile.decoded_players[1]
    ELSE [i \in 1..Len(tile.players) |-> PlayerFromString(tile.players[i])]

PlayersDecoded(tile) == [tile EXCEPT !.decoded_players = <<Players(tile)>>]

\* the places of the players of an email among the decoded players
PlayerMatches(tile, email) ==
    {i \in 1..Len(Players(tile)) : Players(tile)[i].email = email}

HasPlayer(tile, email) == PlayerMatches(tile, email) # {}

\* the first place enumerate() comes to among the places S
First(S) == CHOOSE i \in S : \A j \in S : i <= j

AddPlayer(tile, player, email) ==
    IF HasPlayer(tile, email)
    THEN [tile |-> PlayersDecoded(tile), error |-> "AssertionError"]
    ELSE [tile |-> [tile EXCEPT
                       !.players = Append(@, PlayerToString(player, email)),
                       !.player_emails = Append(@, email),
                       !.decoded_players = <<>>],
          error |-> NoError]

\* GameTile.SetPlayer: line 352 reads the name index, which nothing defines
SetPlayer(tile, player, email) ==
    IF ~HasPlayer(tile, email)
    THEN [tile |-> PlayersDecoded(tile), error |-> "AssertionError"]
    ELSE [tile |-> PlayersDecoded(tile), error |-> "NameError"]

RemovePlayer(tile, email) ==
    IF ~HasPlayer(tile, email)
    THEN [tile |-> PlayersDecoded(tile), error |-> "AssertionError"]
    ELSE [tile |-> [tile EXCEPT
                       !.players = Pop(@, First(PlayerMatches(tile, email))),
                       !.decoded_players = <<>>],
          error |-> NoError]

\* GameTile.Zombies
Zombies(tile) ==
    IF tile.decoded_zombies # <<>> THEN tile.decoded_zombies[1]
    ELSE [i \in 1..Len(tile.zombies) |-> ZombieFromString(tile.zombies[i])]

ZombiesDecoded(tile) == [tile EXCEPT !.decoded_zombies = <<Zombies(tile)>>]

ZombieMatches(tile, guid) ==
    {i \in 1..Len(Zombies(tile)) : Zombies(tile)[i].guid = guid}

HasZombie(tile, guid) == ZombieMatches(tile, guid) # {}

\* AddZombie without the assertion of line 378
AddZombie_NoAssert(tile, zombie, guid) ==
    [tile |-> [tile EXCEPT
                  !.zombies = Append(@, ZombieToString(zombie, guid)),
                  !.decoded_zombies = <<>>],
     error |-> NoError]

AddZombie(tile, zombie, guid) ==
    IF HasZombie(tile, guid)
    THEN [tile |-> ZombiesDecoded(tile), error |-> "AssertionError"]
    ELSE [tile |-> [tile EXCEPT
                       !.zombies = Append(@, ZombieToString(zombie, guid)),
                       !.decoded_zombies = <<>>],
          error |-> NoError]

\* GameTile.RemoveZombie; a tile has a guid once, so one place is popped
RemoveZombie(tile, guid) ==
    IF ~HasZombie(tile, guid)
    THEN [tile |-> ZombiesDecoded(tile), error |-> "AssertionError"]
    ELSE [tile |-> [tile EXCEPT
                       !.zombies = Pop(@, First(ZombieMatches(tile, guid))),
                       !.decoded_zombies = <<>>],
          error |-> NoError]

\* GameTile._SetEntity for zombies: line 408 writes e.ToString(), e being
\* the decoded zombie of the tile with the guid of the zombie passed
SetEntity(tile, zombie, guid, i) ==
    [tile EXCEPT
        !.zombies[i] =
            ZombieToString(Zombies(tile)[i].zombie, Zombies(tile)[i].guid)]

\* GameTile.SetZombie
SetZombie(tile, zombie, guid) ==
    IF ~HasZombie(tile, guid)
    THEN [tile |-> ZombiesDecoded(tile), error |-> "AssertionError"]
    ELSE [tile |-> [SetEntity(tile, zombie, guid,
                              First(ZombieMatches(tile, guid)))
                       EXCEPT !.decoded_zombies = <<>>],
          error |-> NoError]

-----------------------------------------------------------------------------
(* One GameTile and the calls on it                                        *)

\* most emails that player_emails holds
MaxEmails == 2
TileGuids == {1, 2}
TilePlayers ==
    {NewPlayer, PlayerInfect(SetLocation(NewPlayer, 10, Lon1), 0)}
TileZombies == {[NewZombie(9, 2) EXCEPT !.chasing = "a"]}
TileMoves == {7}

\* what a call on the tile of id was given and how it ended
TileCall(name, id, key, entity, error) ==
    [name |-> name, id |-> id, key |-> key, entity |-> entity,
     error |-> error]

\* the tile of id becomes r.tile
TileDone(id, r, name, key, entity) ==
    /\ tiles' = [tiles EXCEPT ![id] = r.tile]
    /\ ret' = TileCall(name, id, key, entity, r.error)
    /\ UNCHANGED <<gameVars, memcache, datastore, running>>

TileAddPlayer(id, player, email) ==
    /\ Len(tiles[id].player_emails) < MaxEmails
    /\ TileDone(id, AddPlayer(tiles[id], player, email),
                "AddPlayer", email, player)

TileSetPlayer(id, player, email) ==
    TileDone(id, SetPlayer(tiles[id], player, email),
             "SetPlayer", email, player)

TileRemovePlayer(id, email) ==
    TileDone(id, RemovePlayer(tiles[id], email),
             "RemovePlayer", email, NewPlayer)

TileAddZombie(id, zombie, guid) ==
    TileDone(id, AddZombie(tiles[id], zombie, guid),
             "AddZombie", guid, zombie)

TileSetZombie(id, zombie, guid) ==
    TileDone(id, SetZombie(tiles[id], zombie, guid),
             "SetZombie", guid, zombie)

TileRemoveZombie(id, guid) ==
    TileDone(id, RemoveZombie(tiles[id], guid),
             "RemoveZombie", guid, NewZombie(0, 0))

\* a caller moves the i-th zombie that Zombies() gave it to latitude lat
\* (Zombie.Advance in line 616) and passes that zombie to SetZombie
TileMoveZombie(id, i, lat) ==
    /\ i \in 1..Len(tiles[id].zombies)
    /\ TileDone(id,
                SetZombie(
                    [tiles[id] EXCEPT
                        !.decoded_zombies =
                            <<[Zombies(tiles[id]) EXCEPT
                                  ![i].zombie.lat = lat]>>],
                    [Zombies(tiles[id])[i].zombie EXCEPT !.lat = lat],
                    Zombies(tiles[id])[i].guid),
                "SetZombie", Zombies(tiles[id])[i].guid,
                [Zombies(tiles[id])[i].zombie EXCEPT !.lat = lat])

InitTile ==
    /\ now = 0
    /\ players = <<>>
    /\ zombies = <<>>
    /\ destination = [lat |-> DestinationLocation[1],
                      lon |-> DestinationLocation[2]]
    /\ op = Op("Init", NoPlayer, 0, 0, 0)
    /\ tiles = [id \in {0} |-> EmptyTile]
    /\ memcache = <<>>
    /\ datastore = <<>>
    /\ ret = [name |-> "Init"]
    /\ running = <<>>

NextTile ==
    \/ \E id \in DOMAIN tiles, p \in TilePlayers, e \in Emails :
          TileAddPlayer(id, p, e)
    \/ \E id \in DOMAIN tiles, p \in TilePlayers, e \in Emails :
          TileSetPlayer(id, p, e)
    \/ \E id \in DOMAIN tiles, e \in Emails : TileRemovePlayer(id, e)
    \/ \E id \in DOMAIN tiles, z \in TileZombies, g \in TileGuids :
          TileAddZombie(id, z, g)
    \/ \E id \in DOMAIN tiles, z \in TileZombies, g \in TileGuids :
          TileSetZombie(id, z, g)
    \/ \E id \in DOMAIN tiles, g \in TileGuids : TileRemoveZombie(id, g)
    \/ \E id \in DOMAIN tiles, i \in 1..Cardinality(TileGuids),
          lat \in TileMoves :
          TileMoveZombie(id, i, lat)

SpecTile == InitTile /\ [][NextTile]_vars

-----------------------------------------------------------------------------
(* GameTileWindow.  tiles is the window's dictionary from tile ids to      *)
(* tiles; memcache and datastore are the cache and the store as seen       *)
(* through memcache.get and GameTile.get_by_key_name, both under the key   *)
(* "gt%d" of the tile id.  A cache payload is a pickled tile, or bytes     *)
(* that pickle.loads refuses with UnpicklingError ("invalid") or, being    *)
(* cut short, with EOFError ("truncated").                                 *)

RECURSIVE GetGameTile(_, _, _, _)

\* the outcome of a call on the window: its tiles, what it returned (<<>>
\* for None, <<v>> for a value v) and the exception it raised
Outcome(T, value, error) == [tiles |-> T, value |-> value, error |-> error]

\* GameTileWindow._GetGameTileFromMemcache
GetGameTileFromMemcache(T, M, tile_id) ==
    IF tile_id \notin DOMAIN M THEN Outcome(T, <<FALSE>>, NoError)
    ELSE IF M[tile_id].kind = "tile"
    THEN Outcome((tile_id :> M[tile_id].tile) @@ T, <<TRUE>>, NoError)
    ELSE IF M[tile_id].kind = "invalid"
    THEN Outcome(T, <<FALSE>>, NoError)
    ELSE Outcome(T, <<>>, "EOFError")

\* GameTileWindow._GetGameTileFromDatastore
GetGameTileFromDatastore(T, D, tile_id) ==
    IF tile_id \in DOMAIN D
    THEN Outcome((tile_id :> D[tile_id]) @@ T, <<TRUE>>, NoError)
    ELSE Outcome(T, <<FALSE>>, NoError)

\* lines 488 to 493, m being what _GetGameTileFromMemcache came to
GetGameTileLoaded(m, M, D, tile_id) ==
    IF m.error # NoError THEN m
    ELSE IF m.value[1] THEN GetGameTile(m.tiles, M, D, tile_id)
    ELSE IF GetGameTileFromDatastore(m.tiles, D, tile_id).value[1]
    THEN GetGameTile(GetGameTileFromDatastore(m.tiles, D, tile_id).tiles,
                     M, D, tile_id)
    ELSE Outcome(m.tiles, <<>>, NoError)

\* GameTileWindow._GetGameTile
GetGameTile(T, M, D, tile_id) ==
    IF tile_id \in DOMAIN T THEN Outcome(T, <<T[tile_id]>>, NoError)
    ELSE GetGameTileLoaded(GetGameTileFromMemcache(T, M, tile_id),
                           M, D, tile_id)

\* self._TileForEntity(entity).AddPlayer(entity) and the like: lines 470
\* and 473 add numbers to the coordinates, and the call is made on the None
\* that _TileForEntity returns
OnTileForEntity(T, e) ==
    IF e.lat = None \/ e.lon = None THEN Outcome(T, <<>>, "TypeError")
    ELSE IF TileForEntity(e) = None THEN Outcome(T, <<>>, "AttributeError")
    ELSE Outcome(T, <<>>, NoError)

\* GameTileWindow.AddPlayer, SetPlayer and AddZombie
WindowAddPlayer(T, player, email) == OnTileForEntity(T, player)
WindowSetPlayer(T, player, email) == OnTileForEntity(T, player)
WindowAddZombie(T, zombie, guid) == OnTileForEntity(T, zombie)

\* GameTileWindow.SetZombie: HasZombie decodes the zombies of every tile
WindowSetZombie(T, zombie, guid) ==
    OnTileForEntity([id \in DOMAIN T |-> ZombiesDecoded(T[id])], zombie)

-----------------------------------------------------------------------------
(* A window on the tiles of two locations, a cache and a store             *)

WindowLats == {8, 8 + TileMeters}
WindowIds == {TileId(lat, Lon1) : lat \in WindowLats}

\* the tile of tile_id with zombie 1 inside
ZombieTile(tile_id) ==
    [EmptyTile EXCEPT
        !.zombies = <<ZombieToString(
            NewZombie(CHOOSE lat \in WindowLats : TileId(lat, Lon1) = tile_id,
                      2), 1)>>]

Payloads ==
    {[kind |-> "invalid"], [kind |-> "truncated"],
     [kind |-> "tile", tile |-> EmptyTile]}

WindowDone(r, name, id, key, entity, memo) ==
    /\ tiles' = r.tiles
    /\ ret' = [name |-> name, id |-> id, key |-> key, entity |-> entity,
               memo |-> memo, value |-> r.value, error |-> r.error]
    /\ UNCHANGED <<gameVars, memcache, datastore, running>>

GetGameTileCall(tile_id) ==
    WindowDone(GetGameTile(tiles, memcache, datastore, tile_id),
               "GetGameTile", tile_id, 0, 0, tile_id \in DOMAIN tiles)

WindowAddPlayerCall(player, email) ==
    WindowDone(WindowAddPlayer(tiles, player, email),
               "Window.AddPlayer", 0, email, player, FALSE)

WindowSetPlayerCall(player, email) ==
    WindowDone(WindowSetPlayer(tiles, player, email),
               "Window.SetPlayer", 0, email, player, FALSE)

WindowAddZombieCall(zombie, guid) ==
    WindowDone(WindowAddZombie(tiles, zombie, guid),
               "Window.AddZombie", 0, guid, zombie, FALSE)

WindowSetZombieCall(zombie, guid) ==
    WindowDone(WindowSetZombie(tiles, zombie, guid),
               "Window.SetZombie", 0, guid, zombie, FALSE)

InitWindow ==
    /\ now = 0
    /\ players = <<>>
    /\ zombies = <<>>
    /\ destination = [lat |-> DestinationLocation[1],
                      lon |-> DestinationLocation[2]]
    /\ op = Op("Init", NoPlayer, 0, 0, 0)
    /\ tiles = <<>>
    /\ \E cached \in SUBSET WindowIds : memcache \in [cached -> Payloads]
    /\ \E stored \in SUBSET WindowIds :
          datastore = [id \in stored |-> ZombieTile(id)]
    /\ ret = [name |-> "Init"]
    /\ running = <<>>

NextWindow ==
    \/ \E id \in WindowIds : GetGameTileCall(id)
    \/ \E p \in TilePlayers, e \in Emails : WindowAddPlayerCall(p, e)
    \/ \E p \in TilePlayers, e \in Emails : WindowSetPlayerCall(p, e)
    \/ \E lat \in WindowLats, g \in Guids :
          WindowAddZombieCall(NewZombie(lat, 2), g)
    \/ \E lat \in WindowLats, g \in Guids :
          WindowSetZombieCall(NewZombie(lat, 2), g)

SpecWindow == InitWindow /\ [][NextWindow]_vars

-----------------------------------------------------------------------------
(* Two players and no zombie: the contact of a player in play with a       *)
(* player that is infected or a zombie                                     *)

\* the destination is FarLat metres north of the players
FarLat == 500
ContactLats == {0, 10, 30}

InitContact ==
    /\ NoIndex
    /\ now = 0
    /\ players = [e \in Emails |-> NewPlayer]
    /\ zombies = <<>>
    /\ destination = [lat |-> FarLat, lon |-> Lon1]
    /\ op = Op("Init", NoPlayer, 0, 0, 0)

NextContact ==
    \/ \E t \in Times : Tick(t)
    \/ \E e \in DOMAIN players, lat \in ContactLats :
          SetPlayerLocation(e, lat, Lon1)
    \/ \E e \in DOMAIN players : Infect(e)
    \/ \E gap \in 0..MaxGap, order \in Orders(DOMAIN players) :
          Advance(gap, order, <<>>)

SpecContact == InitContact /\ [][NextContact]_vars

-----------------------------------------------------------------------------
(* Two calls of Game.Advance on one game.  Nothing in Game.Advance waits   *)
(* for another call: a call reads the game (lines 607 to 614), and later   *)
(* writes what it came to (lines 615 to 631), whatever other calls did in  *)
(* between.  running holds, for every call under way, what it read.        *)

Calls == {1, 2}

\* Game.Advance, lines 607 to 614: the call reads the gap, the players and
\* the zombies
BeginAdvance(k, gap) ==
    /\ k \notin DOMAIN running
    /\ running' = (k :> [gap |-> gap, players |-> players,
                         zombies |-> zombies]) @@ running
    /\ ret' = [name |-> "Advance begins", call |-> k, gap |-> gap,
               order |-> <<>>, dirs |-> <<>>]
    /\ UNCHANGED <<gameVars, tiles, memcache, datastore>>

\* the players and zombies r take the place of the game's
AdvanceWritten(k, r, order, dirs) ==
    /\ players' = r.players
    /\ zombies' = r.zombies
    /\ InWindow(zombies')
    /\ op' = Op("Advance", NoPlayer, running[k].gap, r.seconds_to_move, 0)
    /\ running' = [j \in DOMAIN running \ {k} |-> running[j]]
    /\ ret' = [name |-> "Advance ends", call |-> k, gap |-> running[k].gap,
               order |-> order, dirs |-> dirs]
    /\ UNCHANGED <<now, destination, tiles, memcache, datastore>>

\* Game.Advance, lines 615 to 631: the call moves the zombies and triggers
\* on the players it read, and writes them back
EndAdvance(k, order, dirs) ==
    /\ k \in DOMAIN running
    /\ AdvanceWritten(k,
                      GameAdvance(running[k].players, running[k].zombies,
                                  destination, now, running[k].gap, order,
                                  dirs),
                      order, dirs)

NextCalls ==
    \/ \E t \in Times : Tick(t)
    \/ \E e \in DOMAIN players :
          SetPlayerLocation(e, DestinationLocation[1] + MaxZombieLat,
                            DestinationLocation[2])
    \/ \E k \in Calls, gap \in 0..MaxGap : BeginAdvance(k, gap)
    \/ \E k \in Calls, order \in Orders(DOMAIN players) :
          EndAdvance(k, order,
                     [g \in DOMAIN zombies |-> [s \in 1..MaxGap |-> 0]])

SpecCalls == Init /\ [][NextCalls]_vars

-----------------------------------------------------------------------------
(* Properties                                                              *)

\* player p has a location
Located(p) == p.lat # None /\ p.lon # None

\* in the state after a tick, player p stands within the trigger distance
\* of a zombie or of another player that is a zombie
NearZombie(e, p, P, Z) ==
    \/ \E g \in DOMAIN Z : DistanceFrom(p, Z[g]) < TRIGGER_DISTANCE_METERS
    \/ \E q \in DOMAIN P \ {e} :
          /\ P[q].is_zombie
          /\ Located(P[q])
          /\ DistanceFrom(p, P[q]) < TRIGGER_DISTANCE_METERS

\* C1: in one Game.Advance with nonzero elapsed time, every player in play
\* that is within 15 m of the destination and within 15 m of a zombie (or
\* of a zombie player) ends the tick with reached_destination true and
\* infected false.
C1_DestinationWins ==
    [][\A e \in DOMAIN players :
          (/\ op'.name = "Advance"
           /\ op'.gap > 0
           /\ InPlay(players[e])
           /\ DistanceFrom(players[e], Destination(destination))
                 < TRIGGER_DISTANCE_METERS
           /\ NearZombie(e, players[e], players', zombies'))
          => (players'[e].reached_destination /\ ~players'[e].infected)]_vars

\* C2: Infect on a player that is infected leaves infected_time at the time
\* of the first Infect.
C2_InfectKeepsTime ==
    [][\A e \in DOMAIN players :
          (op'.name = "Infect" /\ op'.player = e /\ players[e].infected)
          => players'[e].infected_time = players[e].infected_time]_vars

\* Invalidate has run on player e in the step: by itself or in a tick
InvalidateRan(e) ==
    \/ op'.name = "Invalidate" /\ op'.player = e
    \/ op'.name = "Advance"

\* C3 as stated: for a player infected at time T that is no zombie yet, an
\* Invalidate at time t leaves is_zombie false when t - T < 120 and makes it
\* true when t - T >= 120.
C3_ZombieFrom120 ==
    [][\A e \in DOMAIN players :
          (InvalidateRan(e) /\ players[e].infected /\ ~players[e].is_zombie)
          => (players'[e].is_zombie <=>
                now - players[e].infected_time
                   >= INFECTED_PLAYER_TRANSITION_SECONDS)]_vars

\* C3 as amended: for a player infected at time T that is no zombie yet, an
\* Invalidate at time t leaves is_zombie false when t - T <= 120 and makes
\* it true when t - T > 120.
C3_ZombieAfter120 ==
    [][\A e \in DOMAIN players :
          (InvalidateRan(e) /\ players[e].infected /\ ~players[e].is_zombie)
          => (players'[e].is_zombie <=>
                now - players[e].infected_time
                   > INFECTED_PLAYER_TRANSITION_SECONDS)]_vars

\* an Invalidate one second after the transition time made the player a
\* zombie
C3_Witness ==
    \E e \in DOMAIN players :
        /\ op.name = "Invalidate" /\ op.player = e
        /\ players[e].is_zombie
        /\ now - players[e].infected_time
              = INFECTED_PLAYER_TRANSITION_SECONDS + 1

\* C4: reached_destination and is_zombie are one-way flags: no step of
\* Infect, Invalidate, ReachedDestination, Trigger or Game.Advance makes
\* either false again.
C4_OneWayFlags ==
    [][\A e \in DOMAIN players :
          /\ players[e].reached_destination => players'[e].reached_destination
          /\ players[e].is_zombie => players'[e].is_zombie]_vars

\* a tick has run on a player that had both flags set, after a new
\* infection
C4_Witness ==
    \E e \in DOMAIN players :
        /\ op.name = "Advance"
        /\ players[e].reached_destination
        /\ players[e].is_zombie
        /\ now - players[e].infected_time
              <= INFECTED_PLAYER_TRANSITION_SECONDS

\* C5: a Game.Advance with zero elapsed time changes no player and no
\* zombie.
C5_ZeroGapNoOp ==
    [][(op'.name = "Advance" /\ op'.gap = 0)
          => (players' = players /\ zombies' = zombies)]_vars

\* C6: the seconds that Game.Advance passes to Zombie.Advance are
\* min(gap, 600), for every gap.
C6_SecondsClamped ==
    op.name = "Advance" => op.seconds = Min(op.gap, MAX_TIME_INTERVAL_SECS)

\* C7: the path of a zombie over a Zombie.Advance of N seconds is at most
\* N * speed long.
C7_PathWithinSpeed ==
    \A g \in DOMAIN zombies :
        op.name = "ZombieAdvance" => op.moved <= op.seconds * zombies[g].speed

\* C8: a Zombie.Advance of one second or more, with one player in play that
\* is closer than one second's travel, ends with the zombie on the player.
C8_LandsOnTarget ==
    [][\A g \in DOMAIN zombies, e \in DOMAIN players :
          (/\ op'.name = "ZombieAdvance"
           /\ op'.seconds >= 1
           /\ \A q \in DOMAIN players : InPlay(players[q]) <=> q = e
           /\ DistanceFrom(zombies[g], players[e]) > 0
           /\ DistanceFrom(zombies[g], players[e]) < zombies[g].speed)
          => (/\ zombies'[g].lat = players[e].lat
              /\ zombies'[g].lon = players[e].lon)]_vars

\* C9: after Zombie.ComputeChasing the zombie chases a player at the least
\* distance when that distance is below 200 m, zero included, and chases
\* nobody exactly when no player is in play or all are 200 m or more away.
C9_ChasesNearest ==
    op.name = "ComputeChasing" =>
        \A g \in DOMAIN zombies :
            LET in_play == {e \in DOMAIN players : InPlay(players[e])}
                near == {e \in in_play :
                            DistanceFrom(zombies[g], players[e])
                               < ZOMBIE_VISION_DISTANCE_METERS}
            IN  IF near = {} THEN zombies[g].chasing = NoPlayer
                ELSE /\ zombies[g].chasing \in near
                     /\ \A e \in in_play :
                           DistanceFrom(zombies[g], players[zombies[g].chasing])
                              <= DistanceFrom(zombies[g], players[e])

\* C10: Game.PlayersInPlay yields exactly the players that have a location,
\* have not reached the destination and are not infected.
C10_InPlayExact ==
    \A order \in Orders(DOMAIN players) :
        {PlayersInPlay(players, order)[i] :
            i \in 1..Len(PlayersInPlay(players, order))}
        = {e \in DOMAIN players :
              /\ Located(players[e])
              /\ ~players[e].reached_destination
              /\ ~players[e].infected}

\* C11: decoding the encoded form of a player gives back every field of the
\* player (lat, lon, email, infected, infected_time, is_zombie,
\* reached_destination), also at a coordinate 0, and the encoded form has
\* the key infected_time exactly when infected is true
C11_RoundTrip ==
    ret.name = "FromString" =>
        /\ \E e \in DOMAIN players :
              ret.decoded = [email |-> e, player |-> players[e]]
        /\ ("infected_time" \in DOMAIN ret.encoded) <=> ret.encoded.infected

\* C16: SetLocation(lat, lon) stores (lat, lon) for lat within 90 degrees
\* and lon within 180 degrees of 0; for a coordinate that is unset or out
\* of that range it raises and the stored location is what it was
C16_SetLocationRange ==
    [][ret'.name = "SetLocation" =>
          \A e \in DOMAIN players :
              IF /\ ret'.lat # None /\ ret'.lon # None
                 /\ ret'.lat \in (0 - 90 * MetersPerDegree)..(90 * MetersPerDegree)
                 /\ ret'.lon \in (0 - 180 * MetersPerDegree)..(180 * MetersPerDegree)
              THEN /\ ~ret'.raised
                   /\ players'[e].lat = ret'.lat
                   /\ players'[e].lon = ret'.lon
              ELSE /\ ret'.raised
                   /\ players'[e].lat = players[e].lat
                   /\ players'[e].lon = players[e].lon]_vars

\* a location was replaced by another one, and a call that raised left a
\* location in place
C16_Witness ==
    /\ ret.name = "SetLocation"
    /\ ret.raised
    /\ ret.lat = 0 /\ ret.lon = MaxLongitude + 1
    /\ players["a"].lat = MaxLatitude
    /\ players["a"].lon = 0 - MaxLongitude

\* C20: of the locations within 90 and 180 degrees, two have the same tile
\* id only if they have the same column and the same row, and the id of
\* (-90, -180) is 0
C20_TileIdUnique ==
    /\ TileId(0 - MaxLatitude, 0 - MaxLongitude) = 0
    /\ ret.name = "TileForEntity" =>
          \A lat \in Latitudes \ {None}, lon \in Longitudes \ {None} :
              (~InvalidLocation(lat, lon) /\ TileId(lat, lon) = ret.id) =>
                  TileColumn(lon) = ret.column /\ TileRow(lat) = ret.row

\* the places of the stored players of an email, and of the stored zombies
\* of a guid
StoredPlayers(tile, email) ==
    {i \in 1..Len(tile.players) : tile.players[i].email = email}
StoredZombies(tile, guid) ==
    {i \in 1..Len(tile.zombies) : tile.zombies[i].guid = guid}

\* the last call was one of names on an identity that the tile held
\* (held = TRUE) or did not hold (held = FALSE) when it was made
CalledOn(names, held) ==
    /\ ret'.name \in names
    /\ IF ret'.name \in {"AddPlayer", "SetPlayer", "RemovePlayer"}
       THEN (StoredPlayers(tiles[ret'.id], ret'.key) # {}) = held
       ELSE (StoredZombies(tiles[ret'.id], ret'.key) # {}) = held

\* C13: after SetZombie(z) or SetPlayer(p) on a tile that holds the
\* identity, the stored record of that identity is the state of the entity
\* passed, the next Zombies() or Players() returns that state, and the
\* records of the other identities are what they were
C13_SetStoresPassed ==
    [][CalledOn({"SetZombie", "SetPlayer"}, TRUE) =>
          IF ret'.name = "SetZombie"
          THEN /\ Len(tiles'[ret'.id].zombies) = Len(tiles[ret'.id].zombies)
               /\ \A i \in 1..Len(tiles[ret'.id].zombies) :
                     IF tiles[ret'.id].zombies[i].guid = ret'.key
                     THEN /\ tiles'[ret'.id].zombies[i]
                                = ZombieToString(ret'.entity, ret'.key)
                          /\ Zombies(tiles'[ret'.id])[i].zombie = ret'.entity
                     ELSE tiles'[ret'.id].zombies[i]
                             = tiles[ret'.id].zombies[i]
          ELSE /\ Len(tiles'[ret'.id].players) = Len(tiles[ret'.id].players)
               /\ \A i \in 1..Len(tiles[ret'.id].players) :
                     IF tiles[ret'.id].players[i].email = ret'.key
                     THEN /\ tiles'[ret'.id].players[i]
                                = PlayerToString(ret'.entity, ret'.key)
                          /\ Players(tiles'[ret'.id])[i].player = ret'.entity
                     ELSE tiles'[ret'.id].players[i]
                             = tiles[ret'.id].players[i]]_vars

\* C14: AddPlayer or AddZombie of an identity the tile holds fails, and
\* RemovePlayer, RemoveZombie, SetPlayer or SetZombie of an identity the
\* tile does not hold fails; the stored players, player emails and zombies
\* are then what they were
C14_FailuresKeepTile ==
    [][\/ CalledOn({"AddPlayer", "AddZombie"}, TRUE)
       \/ CalledOn({"RemovePlayer", "RemoveZombie", "SetPlayer",
                    "SetZombie"}, FALSE)
       => /\ ret'.error # NoError
          /\ tiles'[ret'.id].players = tiles[ret'.id].players
          /\ tiles'[ret'.id].player_emails = tiles[ret'.id].player_emails
          /\ tiles'[ret'.id].zombies = tiles[ret'.id].zombies]_vars

\* a zombie was added to a tile that holds its guid beside another guid
C14_Witness ==
    /\ ret.name = "AddZombie"
    /\ ret.error # NoError
    /\ StoredZombies(tiles[ret.id], ret.key) # {}
    /\ Len(tiles[ret.id].zombies) = 2
    /\ Len(tiles[ret.id].players) = 1

\* C19: in a tile, player_emails is as long as players and its i-th email
\* is the email of the i-th encoded player
C19_EmailsParallel ==
    \A id \in DOMAIN tiles :
        /\ Len(tiles[id].player_emails) = Len(tiles[id].players)
        /\ \A i \in 1..Len(tiles[id].players) :
              tiles[id].player_emails[i]
                  = PlayerFromString(tiles[id].players[i]).email

\* the tiles among T that hold a zombie of guid, and those that hold a
\* player of email
TilesOfZombie(T, guid) ==
    {id \in DOMAIN T : StoredZombies(T[id], guid) # {}}
TilesOfPlayer(T, email) ==
    {id \in DOMAIN T : StoredPlayers(T[id], email) # {}}

\* every zombie and player of the tiles T is stored in one tile, the tile
\* of its coordinates
InOwnTiles(T) ==
    \A id \in DOMAIN T :
        /\ \A i \in 1..Len(T[id].zombies) :
              /\ TileId(T[id].zombies[i].lat, T[id].zombies[i].lon) = id
              /\ TilesOfZombie(T, T[id].zombies[i].guid) = {id}
        /\ \A i \in 1..Len(T[id].players) :
              /\ TileId(T[id].players[i].lat, T[id].players[i].lon) = id
              /\ TilesOfPlayer(T, T[id].players[i].email) = {id}

\* C12: every zombie and player is stored in exactly one tile, the tile of
\* its coordinates; SetZombie or SetPlayer on the tile index for an entity
\* whose new coordinates are of another tile than the one that holds it
\* succeeds and moves the entity from the old tile to the new one
C12_StoredInOwnTile ==
    [][/\ InOwnTiles(tiles')
       /\ (/\ ret'.name = "Window.SetZombie"
           /\ TilesOfZombie(tiles, ret'.key) # {}
           /\ TileId(ret'.entity.lat, ret'.entity.lon)
                 \notin TilesOfZombie(tiles, ret'.key))
          => /\ ret'.error = NoError
             /\ TilesOfZombie(tiles', ret'.key)
                   = {TileId(ret'.entity.lat, ret'.entity.lon)}
       /\ (/\ ret'.name = "Window.SetPlayer"
           /\ TilesOfPlayer(tiles, ret'.key) # {}
           /\ TileId(ret'.entity.lat, ret'.entity.lon)
                 \notin TilesOfPlayer(tiles, ret'.key))
          => /\ ret'.error = NoError
             /\ TilesOfPlayer(tiles', ret'.key)
                   = {TileId(ret'.entity.lat, ret'.entity.lon)}]_vars

\* C15: _GetGameTile(tile_id) always returns a tile, the one the window
\* then has under tile_id: its own if it had one, else the cached one, else
\* (after a miss or an undecodable payload) the stored one, else a new
\* empty tile
C15_AlwaysATile ==
    ret.name = "GetGameTile" =>
        /\ ret.error = NoError
        /\ ret.value # <<>>
        /\ ret.id \in DOMAIN tiles
        /\ ret.value[1] = tiles[ret.id]
        /\ ~ret.memo =>
              ret.value[1] =
                  IF ret.id \in DOMAIN memcache
                     /\ memcache[ret.id].kind = "tile"
                  THEN memcache[ret.id].tile
                  ELSE IF ret.id \in DOMAIN datastore
                  THEN datastore[ret.id]
                  ELSE EmptyTile

\* player q, the way the tick leaves it, stands within the trigger distance
\* of player e
InContact(e, q) ==
    /\ q # e
    /\ Located(players[q])
    /\ DistanceFrom(players[e], players[q]) < TRIGGER_DISTANCE_METERS

\* C18: in a tick, a player in play (with a location, not at the
\* destination, not infected) within 15 m of a player whose is_zombie is
\* true becomes infected; a player in play whose only contacts are players
\* with is_zombie false is left as it was
C18_ZombiePlayerInfects ==
    [][op'.name = "Advance" =>
          \A e \in DOMAIN players :
              (/\ Located(players[e])
               /\ ~players[e].reached_destination
               /\ ~players[e].infected)
              => /\ (\E q \in DOMAIN players :
                        InContact(e, q) /\ players'[q].is_zombie)
                    => players'[e].infected
                 /\ (/\ \A q \in DOMAIN players :
                           InContact(e, q) => ~players'[q].is_zombie
                     /\ \A g \in DOMAIN zombies :
                           DistanceFrom(players[e], zombies[g])
                               >= TRIGGER_DISTANCE_METERS
                     /\ DistanceFrom(players[e], destination)
                           >= TRIGGER_DISTANCE_METERS)
                    => players'[e] = players[e]]_vars

\* C17: of two calls of Game.Advance on one game, the second reads and
\* writes nothing before the first is done: no call begins while another
\* is under way, and a call that ends leaves the game as a tick run by
\* itself on the game at that moment would
C17_TicksExclusive ==
    [][/\ DOMAIN running' \ DOMAIN running # {} => DOMAIN running = {}
       /\ DOMAIN running \ DOMAIN running' # {} =>
             /\ DOMAIN running = {ret'.call}
             /\ players' = GameAdvance(players, zombies, destination, now,
                                       ret'.gap, ret'.order,
                                       ret'.dirs).players
             /\ zombies' = GameAdvance(players, zombies, destination, now,
                                       ret'.gap, ret'.order,
                                       ret'.dirs).zombies]_vars

\* C21: from a new player on, through Infect, Invalidate,
\* ReachedDestination, Trigger and Game.Advance, a player whose is_zombie
\* is true is infected, and an infected player has an infected_time
C21_ZombieIsInfected ==
    \A e \in DOMAIN players :
        /\ players[e].is_zombie => players[e].infected
        /\ players[e].infected => players[e].infected_time # None

\* a tick turned an infected player into a zombie, more than the transition
\* time after the infection
C21_Witness ==
    \E e \in DOMAIN players :
        /\ op.name = "Advance"
        /\ players[e].is_zombie
        /\ players[e].infected
        /\ ~players[e].reached_destination
        /\ now - players[e].infected_time
              > INFECTED_PLAYER_TRANSITION_SECONDS

====
